---- MODULE Spec2Model ----
(***************************************************************************)
(* The grss command-line exercises of rust/rust-cli/grss/src:              *)
(*   main.rs           prints the program name, the pattern and the path,  *)
(*                     each read from a fresh std::env::args() iterator;   *)
(*   cli_datatypes.rs  reads pattern and path by position and builds a Cli *)
(*                     struct from them.                                   *)
(* A run is one process: it starts with an argument vector argv and runs   *)
(* the statements of its main() in order until it returns or panics.       *)
(* A Rust String is modelled as the sequence of its characters, an         *)
(* Option<T> as the empty tuple (None) or a one-element tuple (Some).      *)
(***************************************************************************)
EXTENDS Integers, Sequences, FiniteSets, TLC

VARIABLES
    variant,        \* which binary runs: "main" (main.rs) or "cli_datatypes"
    argv,           \* the process's argument vector, item 0 first
    pc,             \* the statement main() is about to execute
    program_name,   \* main.rs: let program_name
    pattern,        \* let pattern
    path,           \* let path
    args,           \* cli_datatypes.rs: let args = Cli { .. }
    stdout,         \* the lines println! has written
    panic           \* the message of the panic that ended the run, if any

vars == <<variant, argv, pc, program_name, pattern, path, args, stdout, panic>>

(***************************************************************************)
(* Bounds and input domain.                                                *)
(***************************************************************************)
MaxArgs == 4

\* Argument tokens: the empty string, "foo", "bar", " f " and "grss".
Tokens ==
    { <<>>,
      <<"f", "o", "o">>,
      <<"b", "a", "r">>,
      <<" ", "f", " ">>,
      <<"g", "r", "s", "s">> }

ArgVectors == UNION { [1..n -> Tokens] : n \in 0..MaxArgs }

Variants == {"main", "cli_datatypes"}

(***************************************************************************)
(* Option<T>.                                                              *)
(***************************************************************************)
None == <<>>
Some(v) == <<v>>
IsSome(o) == o # <<>>
Unwrap(o) == o[1]

Range(s) == { s[i] : i \in 1..Len(s) }

(***************************************************************************)
(* std::env::args() and the iterator adaptors the programs call on it.     *)
(***************************************************************************)
\* Every call of std::env::args() gives a new iterator over the whole
\* argument vector, positioned at item 0.
EnvArgs == argv

\* Iterator::next on a fresh iterator: its first item, if there is one.
Next_(it) == IF Len(it) = 0 THEN None ELSE Some(it[1])

\* Mutants of Nth: the off-by-one index, the read that ignores n, and the
\* read that trims the token it returns.
NthOffByOne(it, n) == IF n >= 1 /\ n - 1 < Len(it) THEN Some(it[n]) ELSE None

NthAsNext(it, n) == Next_(it)

RECURSIVE TrimStart(_)
TrimStart(s) ==
    IF s # <<>> /\ Head(s) = " " THEN TrimStart(Tail(s)) ELSE s

RECURSIVE TrimEnd(_)
TrimEnd(s) ==
    IF s # <<>> /\ s[Len(s)] = " " THEN TrimEnd(SubSeq(s, 1, Len(s) - 1)) ELSE s

NthTrimmed(it, n) ==
    IF n < Len(it) THEN Some(TrimEnd(TrimStart(it[n + 1]))) ELSE None

\* Iterator::nth(n) on a fresh iterator: the item at 0-based position n.
Nth(it, n) == IF n < Len(it) THEN Some(it[n + 1]) ELSE None

(***************************************************************************)
(* Option::expect(msg): the value, or a panic with msg.                    *)
(***************************************************************************)
\* Mutants of Expect: a default value in place of the panic, and a read that
\* also refuses the empty string.
ExpectOrDefault(o, msg) ==
    [ok |-> TRUE, val |-> IF IsSome(o) THEN Unwrap(o) ELSE <<>>, msg |-> None]

ExpectNonEmpty(o, msg) ==
    IF IsSome(o) /\ Unwrap(o) # <<>>
    THEN [ok |-> TRUE, val |-> Unwrap(o), msg |-> None]
    ELSE [ok |-> FALSE, val |-> <<>>, msg |-> Some(msg)]

Expect(o, msg) ==
    IF IsSome(o)
    THEN [ok |-> TRUE, val |-> Unwrap(o), msg |-> None]
    ELSE [ok |-> FALSE, val |-> <<>>, msg |-> Some(msg)]

(***************************************************************************)
(* The panic messages, word by word.                                       *)
(***************************************************************************)
MainNoProgramNameMsg ==
    <<"Program", "name", "can't", "find", "I", "don't", "know", "how",
      "this", "will", "happen">>

MainNoPatternMsg ==
    <<"No", "pattern", "given", ",", "please", "give", "some", "pattern",
      "brother", ".">>

MainNoPathMsg ==
    <<"No", "path", "given", ",", "please", "give", "some", "path",
      "brother", ",", "what", "to", "do", "?">>

CliNoPatternMsg == <<"no", "pattern", "given">>

\* Mutant of CliNoPathMsg: the message of the line above, pasted unchanged.
CliNoPathMsgPasted == <<"no", "pattern", "given">>

CliNoPathMsg == <<"no", "path", "given">>

(***************************************************************************)
(* The right-hand sides of the let statements.                             *)
(***************************************************************************)
\* Mutant of MainReadProgramName: the message of the pattern read pasted.
MainReadProgramNamePasted == Expect(Next_(EnvArgs), MainNoPatternMsg)

MainReadProgramName == Expect(Next_(EnvArgs), MainNoProgramNameMsg)

\* Mutant of MainReadPattern: .next() on the new iterator in place of .nth(1).
MainReadPatternNext == Expect(Next_(EnvArgs), MainNoPatternMsg)

MainReadPattern == Expect(Nth(EnvArgs, 1), MainNoPatternMsg)

\* Mutant of MainReadPath: the read the comment above the statement
\* describes, .next() on the new iterator.
MainReadPathNext == Expect(Next_(EnvArgs), MainNoPathMsg)

MainReadPath == Expect(Nth(EnvArgs, 2), MainNoPathMsg)

CliReadPattern == Expect(Nth(EnvArgs, 1), CliNoPatternMsg)

\* Mutants of CliReadPath: the pattern's index pasted, and the last argument
\* taken as the path.
CliReadPathPasted == Expect(Nth(EnvArgs, 1), CliNoPathMsg)

CliReadPathLast ==
    Expect(IF Len(EnvArgs) >= 3 THEN Some(EnvArgs[Len(EnvArgs)]) ELSE None,
           CliNoPathMsg)

CliReadPath == Expect(Nth(EnvArgs, 2), CliNoPathMsg)

(***************************************************************************)
(* Values and formatting.                                                  *)
(***************************************************************************)
\* std::path::PathBuf::from(String): the string's bytes become the path's.
PathBufFrom(s) == [inner |-> s]

\* {:?} of a String or a PathBuf: the text between double quotes.  No
\* character of Tokens is one that Debug escapes.
DebugStr(s) == <<"\"">> \o s \o <<"\"">>

\* println!(fmt, a...): the format string and its formatted arguments.
Line(fmt, a) == [fmt |-> fmt, args |-> a]

(***************************************************************************)
(* Initial state: a process started with any argument vector.              *)
(***************************************************************************)
Init ==
    /\ variant \in Variants
    /\ argv \in ArgVectors
    /\ pc = IF variant = "main" THEN "greet" ELSE "read_pattern"
    /\ program_name = None
    /\ pattern = None
    /\ path = None
    /\ args = None
    /\ stdout = <<>>
    /\ panic = None

(***************************************************************************)
(* main.rs                                                                 *)
(***************************************************************************)
MainGreet ==
    /\ variant = "main" /\ pc = "greet"
    /\ stdout' = Append(stdout,
          Line("Oh look, another 'Hello, world!' program. How original.", <<>>))
    /\ pc' = "read_name"
    /\ UNCHANGED <<variant, argv, program_name, pattern, path, args, panic>>

MainLetProgramName ==
    /\ variant = "main" /\ pc = "read_name"
    /\ LET r == MainReadProgramName IN
         IF r.ok
         THEN /\ program_name' = Some(r.val)
              /\ pc' = "print_name"
              /\ panic' = panic
         ELSE /\ panic' = r.msg
              /\ pc' = "panicked"
              /\ program_name' = program_name
    /\ UNCHANGED <<variant, argv, pattern, path, args, stdout>>

MainPrintProgramName ==
    /\ variant = "main" /\ pc = "print_name"
    /\ stdout' = Append(stdout,
          Line("Program name is{:?}", <<DebugStr(Unwrap(program_name))>>))
    /\ pc' = "read_pattern"
    /\ UNCHANGED <<variant, argv, program_name, pattern, path, args, panic>>

MainLetPattern ==
    /\ variant = "main" /\ pc = "read_pattern"
    /\ LET r == MainReadPattern IN
         IF r.ok
         THEN /\ pattern' = Some(r.val)
              /\ pc' = "print_pattern"
              /\ panic' = panic
         ELSE /\ panic' = r.msg
              /\ pc' = "panicked"
              /\ pattern' = pattern
    /\ UNCHANGED <<variant, argv, program_name, path, args, stdout>>

MainPrintPattern ==
    /\ variant = "main" /\ pc = "print_pattern"
    /\ stdout' = Append(stdout,
          Line("Pattern name is {:?}", <<DebugStr(Unwrap(pattern))>>))
    /\ pc' = "read_path"
    /\ UNCHANGED <<variant, argv, program_name, pattern, path, args, panic>>

MainLetPath ==
    /\ variant = "main" /\ pc = "read_path"
    /\ LET r == MainReadPath IN
         IF r.ok
         THEN /\ path' = Some(r.val)
              /\ pc' = "print_path"
              /\ panic' = panic
         ELSE /\ panic' = r.msg
              /\ pc' = "panicked"
              /\ path' = path
    /\ UNCHANGED <<variant, argv, program_name, pattern, args, stdout>>

MainPrintPath ==
    /\ variant = "main" /\ pc = "print_path"
    /\ stdout' = Append(stdout,
          Line("path is {:?}", <<DebugStr(Unwrap(path))>>))
    /\ pc' = "done"
    /\ UNCHANGED <<variant, argv, program_name, pattern, path, args, panic>>

(***************************************************************************)
(* cli_datatypes.rs                                                        *)
(***************************************************************************)
CliLetPattern ==
    /\ variant = "cli_datatypes" /\ pc = "read_pattern"
    /\ LET r == CliReadPattern IN
         IF r.ok
         THEN /\ pattern' = Some(r.val)
              /\ pc' = "read_path"
              /\ panic' = panic
         ELSE /\ panic' = r.msg
              /\ pc' = "panicked"
              /\ pattern' = pattern
    /\ UNCHANGED <<variant, argv, program_name, path, args, stdout>>

CliLetPath ==
    /\ variant = "cli_datatypes" /\ pc = "read_path"
    /\ LET r == CliReadPath IN
         IF r.ok
         THEN /\ path' = Some(r.val)
              /\ pc' = "build"
              /\ panic' = panic
         ELSE /\ panic' = r.msg
              /\ pc' = "panicked"
              /\ path' = path
    /\ UNCHANGED <<variant, argv, program_name, pattern, args, stdout>>

\* let args = Cli { pattern, path: PathBuf::from(path) }: both locals are
\* moved into the struct.
CliBuild ==
    /\ variant = "cli_datatypes" /\ pc = "build"
    /\ args' = Some([pattern |-> Unwrap(pattern),
                     path |-> PathBufFrom(Unwrap(path))])
    /\ pattern' = None
    /\ path' = None
    /\ pc' = "print"
    /\ UNCHANGED <<variant, argv, program_name, stdout, panic>>

CliPrint ==
    /\ variant = "cli_datatypes" /\ pc = "print"
    /\ stdout' = Append(stdout,
          Line("pattern: {:?}, path: {:?}",
               <<DebugStr(Unwrap(args).pattern),
                 DebugStr(Unwrap(args).path.inner)>>))
    /\ pc' = "done"
    /\ UNCHANGED <<variant, argv, program_name, pattern, path, args, panic>>

Next ==
    \/ MainGreet
    \/ MainLetProgramName
    \/ MainPrintProgramName
    \/ MainLetPattern
    \/ MainPrintPattern
    \/ MainLetPath
    \/ MainPrintPath
    \/ CliLetPattern
    \/ CliLetPath
    \/ CliBuild
    \/ CliPrint

Spec == Init /\ [][Next]_vars

(***************************************************************************)
(* Vocabulary of the properties.                                           *)
(***************************************************************************)
Terminated == pc \in {"done", "panicked"}

\* The request a finished run holds: the two locals of main.rs, the fields
\* of the Cli struct of cli_datatypes.rs.
RequestPattern ==
    IF variant = "main" THEN Unwrap(pattern) ELSE Unwrap(args).pattern

RequestPath ==
    IF variant = "main" THEN Unwrap(path) ELSE Unwrap(args).path.inner

NoPatternMsg == IF variant = "main" THEN MainNoPatternMsg ELSE CliNoPatternMsg

NoPathMsg == IF variant = "main" THEN MainNoPathMsg ELSE CliNoPathMsg

MissingPattern == pc = "panicked" /\ panic = Some(NoPatternMsg)

MissingPath == pc = "panicked" /\ panic = Some(NoPathMsg)

Fmts == { stdout[i].fmt : i \in 1..Len(stdout) }

\* The lines that show a field of the request.
PatternFmts == {"Pattern name is {:?}", "pattern: {:?}, path: {:?}"}

PathFmts == {"path is {:?}", "pattern: {:?}, path: {:?}"}

C2_NoArgsMissingPattern ==
    Len(argv) = 1
        => /\ pc # "done"
           /\ panic # Some(NoPathMsg)
           /\ Terminated => MissingPattern

C2_Witness == Len(argv) = 1 /\ MissingPattern /\ path = None

SuccessOutput(prog, p, d) ==
    IF variant = "main"
    THEN << Line("Oh look, another 'Hello, world!' program. How original.", <<>>),
            Line("Program name is{:?}", <<DebugStr(prog)>>),
            Line("Pattern name is {:?}", <<DebugStr(p)>>),
            Line("path is {:?}", <<DebugStr(d)>> ) >>
    ELSE << Line("pattern: {:?}, path: {:?}", <<DebugStr(p), DebugStr(d)>>) >>

C6_Original ==
    pc = "done" => (RequestPattern # <<>> /\ RequestPath # <<>>)

(***************************************************************************)
(* C6, amended: a request is constructed exactly when positions 1 and 2    *)
(* are present, and its fields are the tokens there, the empty string      *)
(* included; construction fails only when a position is absent.            *)
(***************************************************************************)
C6_PresenceOnly ==
    /\ pc = "done"
          => /\ Len(argv) >= 3
             /\ RequestPattern = argv[2]
             /\ RequestPath = argv[3]
    /\ (Terminated /\ Len(argv) >= 3) => pc = "done"
    /\ (Terminated /\ Len(argv) < 3) => (pc = "panicked" /\ args = None)

\* A request constructed with an empty pattern.
C6_Witness ==
    /\ pc = "done"
    /\ argv[2] = <<>>
    /\ RequestPattern = <<>>
    /\ RequestPath # <<>>

\* Which read ended the run.
PatternReadFailed ==
    /\ pc = "panicked"
    /\ pattern = None
    /\ variant = "main" => IsSome(program_name)

PathReadFailed == pc = "panicked" /\ IsSome(pattern)

(***************************************************************************)
(* C7: the two failures have different messages: the message of a failed   *)
(* pattern read names the pattern and not the path, the message of a       *)
(* failed path read names the path and not the pattern.                    *)
(***************************************************************************)
C7_MessagesDistinguishable ==
    /\ NoPatternMsg # NoPathMsg
    /\ PatternReadFailed
          => /\ "pattern" \in Range(Unwrap(panic))
             /\ "path" \notin Range(Unwrap(panic))
    /\ PathReadFailed
          => /\ "path" \in Range(Unwrap(panic))
             /\ "pattern" \notin Range(Unwrap(panic))

\* The path read of cli_datatypes.rs has failed.
C7_Witness ==
    /\ variant = "cli_datatypes"
    /\ PathReadFailed
    /\ panic = Some(<<"no", "path", "given">>)

\* The number of lines written before the read that failed.
LinesBeforeFailure ==
    IF variant = "cli_datatypes" THEN 0
    ELSE IF program_name = None THEN 1
    ELSE IF pattern = None THEN 2
    ELSE 3

(***************************************************************************)
(* C8: a failed read ends the run there.  No request is built, no field    *)
(* is given a default, nothing is written after the failing read, and no   *)
(* local or struct holds a value that the argument vector did not supply.  *)
(***************************************************************************)
C8_FailureStopsRun ==
    /\ IsSome(panic) <=> pc = "panicked"
    /\ pc = "panicked"
          => /\ args = None
             /\ path = None
             /\ Fmts \cap PathFmts = {}
             /\ pattern = None => Fmts \cap PatternFmts = {}
             /\ Len(stdout) = LinesBeforeFailure
    /\ IsSome(pattern) => Len(argv) >= 2
    /\ IsSome(path) => Len(argv) >= 3
    /\ IsSome(args) => Len(argv) >= 3

\* main.rs stopped at the path read, after the pattern was printed.
C8_Witness ==
    /\ variant = "main"
    /\ PathReadFailed
    /\ Len(stdout) = 3
    /\ path = None

MissingProgramName == pc = "panicked" /\ panic = Some(MainNoProgramNameMsg)

OutcomeCount ==
    Cardinality({ k \in {"ok", "pattern", "path", "name"} :
        \/ k = "ok" /\ pc = "done"
        \/ k = "pattern" /\ MissingPattern
        \/ k = "path" /\ MissingPath
        \/ k = "name" /\ MissingProgramName })

Outcome ==
    IF pc = "done"
    THEN [kind |-> "ok", pattern |-> Some(RequestPattern),
          path |-> Some(RequestPath)]
    ELSE [kind |-> IF MissingPattern THEN "missing_pattern"
                   ELSE IF MissingPath THEN "missing_path"
                   ELSE "other",
          pattern |-> None, path |-> None]

\* The outcome as a function of the argument vector alone, the same for
\* both programs.
OutcomeOf(a) ==
    IF Len(a) >= 3
    THEN [kind |-> "ok", pattern |-> Some(a[2]), path |-> Some(a[3])]
    ELSE [kind |-> IF Len(a) = 2 THEN "missing_path" ELSE "missing_pattern",
          pattern |-> None, path |-> None]

====
